---- MODULE Spec2Model ----
(***************************************************************************)
(* Minimux (src/src/index.js): a single-store state container.  Actions    *)
(* are driven through a lazily composed chain of middleware ("the onion")  *)
(* that wraps the core reduction step, and subscribers are notified once   *)
(* the batch has been reduced.                                             *)
(*                                                                         *)
(* The module state (reducers, callbacks, middleware, state, mutableState, *)
(* callbackOnion) is the state of the model.  Every exported function is   *)
(* one action; the work a call does is computed by operators that thread   *)
(* a record of the module state (a "world") through the code of the call,  *)
(* statement by statement, and append what happens to a trace.             *)
(***************************************************************************)
EXTENDS Integers, Sequences, FiniteSets, TLC

VARIABLES
    state,          \* index.js:30  the current state object
    mutableState,   \* index.js:31  the legacy mirror exported as "state"
    reducers,       \* index.js:26  action type -> list of reducers
    callbacks,      \* index.js:27  the subscribers, in registration order
    middleware,     \* index.js:28  list of {priority, func}
    callbackOnion,  \* index.js:35  the cached composed pipeline, or null
    call,           \* the last call made to the module and how it ended
    trace,          \* what the last call did, in order
    builds,         \* how many times a pipeline has been composed
    buildsSinceUse, \* the same, counted from the last use(...) call
    calls,          \* how many calls have been made to the module
    reference       \* the reducers folded over the dispatched actions outside the engine

vars == <<state, mutableState, reducers, callbacks, middleware, callbackOnion,
          call, trace, builds, buildsSinceUse, calls, reference>>

(***************************************************************************)
(* Bounds of the model.                                                    *)
(***************************************************************************)
MaxCalls == 5           \* calls made to the module in one run

(***************************************************************************)
(* Values.  A JavaScript object is the set of its <<key, value>> pairs.    *)
(***************************************************************************)
EmptyObject == {}

Keys(obj) == {p[1] : p \in obj}

Get(obj, key) == (CHOOSE p \in obj : p[1] = key)[2]

Has(obj, key) == key \in Keys(obj)

Types == {"A", "B"}

\* An argument handed to dispatch as (an element of) "action".
Action(t) == [typeof |-> "object", isArray |-> FALSE, hasType |-> TRUE, type |-> t]

Untyped == [typeof |-> "object", isArray |-> FALSE, hasType |-> FALSE, type |-> "undefined"]

NotAnObject == [typeof |-> "string", isArray |-> FALSE, hasType |-> FALSE, type |-> "undefined"]

\* The second argument of dispatch: its typeof and whether it is truthy.
Flag(b) == [typeof |-> "boolean", truthy |-> b]

NotABoolean == [typeof |-> "number", truthy |-> TRUE]

\* One entry of the trace.
Event(ev, who, layer, type, st) ==
    [ev |-> ev, who |-> who, layer |-> layer, type |-> type, state |-> st]

Log(w, e) == [w EXCEPT !.trace = Append(@, e)]

(***************************************************************************)
(* The code handed to the module by its callers: reducers, middleware      *)
(* functions and subscribers.                                              *)
(***************************************************************************)
Reducers == {"inc", "dbl"}

\* README: { count: state.count + 1 }; "inc" counts from 0 on the empty state.
Count(s) == IF Has(s, "count") THEN Get(s, "count") ELSE 0

reducerBody(r, s, action) ==
    CASE r = "inc" -> {<<"count", Count(s) + 1>>}
      [] r = "dbl" -> {<<"count", Count(s) * 2>>}

\* "pass" returns next(action); "block" prevents the action and returns getState().
Kinds == {"pass", "block"}

\* "stamp" returns the result of next(action) with the key seen added; "reset"
\* prevents the action and returns { count: 0 }.
AlteringKinds == {"stamp", "reset"}

\* "installer" calls use(...) with a new "pass" function and returns next(action);
\* "levelUp" calls next(action), then for an action of type A calls
\* dispatch({ type: "B" }, false), and returns the result of next.
CallingKinds == {"installer", "levelUp"}

PriorityValues == {0, 1}

\* "cb1" and "cb2" are functions; "comp" is an object with an updater.
Subscribers == {"cb1", "cb2", "comp"}

\* Functions that do more than look at the state: "thrower" throws; "once" calls
\* unlisten on itself; "dispatcher" calls dispatch({ type: "B" }, false);
\* "observer" calls getState().
Callers == {"thrower", "once", "dispatcher", "observer"}

typeofSubscriber(el) == IF el = "comp" THEN "object" ELSE "function"

\* The errors that are not thrown by the validation of an argument.
NotAFunction == "TypeError: callbackOnion is not a function"

SubscriberError == "Error thrown by a subscriber"

Put(obj, key, value) == {p \in obj : p[1] # key} \cup {<<key, value>>}

\* The functions of index.js that the callers' code above calls back into.
RECURSIVE dispatch(_, _, _)
RECURSIVE use(_, _, _)
RECURSIVE unlisten(_, _)
RECURSIVE getState(_)

(***************************************************************************)
(* index.js:37-55  coreFunction                                            *)
(***************************************************************************)
\* index.js:46-51: the mirror is emptied key by key, then every key of state is copied.
mirror(ms, s) ==
    LET emptied == {p \in ms : p[1] \notin Keys(ms)}
    IN  emptied \cup {<<k, Get(s, k)>> : k \in Keys(s)}

\* A variant of the pass in which every reducer is handed the state the pass began
\* with.
RECURSIVE forEachReducerOn(_, _, _, _, _)
forEachReducerOn(w, list, i, action, s0) ==
    IF i > Len(list) THEN w
    ELSE LET el == list[i]
             s1 == reducerBody(el, s0, action)
             w1 == Log(w, Event("reducer", el, 0, action.type, s0))
             w2 == [w1 EXCEPT !.state = s1, !.mutableState = mirror(@, s1)]
         IN  forEachReducerOn(w2, list, i + 1, action, s0)

forEachReducerUnchained(w, list, i, action) == forEachReducerOn(w, list, i, action, w.state)

\* index.js:39-52: one pass of reducers[action.type].forEach, from element i on.
RECURSIVE forEachReducer(_, _, _, _)
forEachReducer(w, list, i, action) ==
    IF i > Len(list) THEN w
    ELSE LET el == list[i]
             s1 == reducerBody(el, w.state, action)
             w1 == Log(w, Event("reducer", el, 0, action.type, w.state))
             w2 == [w1 EXCEPT !.state = s1, !.mutableState = mirror(@, s1)]
         IN  forEachReducer(w2, list, i + 1, action)

\* A variant that returns the state it was entered with.
coreFunctionStale(w, action) ==
    LET w0 == Log(w, Event("core", "coreFunction", 0, action.type, w.state))
        w1 == IF action.type \in DOMAIN w0.reducers
              THEN forEachReducer(w0, w0.reducers[action.type], 1, action)
              ELSE w0
    IN  [w |-> w1, ret |-> w.state]

\* A variant that returns the empty state for an action without reducers.
coreFunctionDefaulting(w, action) ==
    LET w0 == Log(w, Event("core", "coreFunction", 0, action.type, w.state))
    IN  IF action.type \in DOMAIN w0.reducers
        THEN LET w1 == forEachReducer(w0, w0.reducers[action.type], 1, action)
             IN  [w |-> w1, ret |-> w1.state]
        ELSE [w |-> w0, ret |-> EmptyObject]

\* The world after the call and the value returned.
coreFunction(w, action) ==
    LET w0 == Log(w, Event("core", "coreFunction", 0, action.type, w.state))
        w1 == IF action.type \in DOMAIN w0.reducers
              THEN forEachReducer(w0, w0.reducers[action.type], 1, action)
              ELSE w0
    IN  [w |-> w1, ret |-> w1.state]

(***************************************************************************)
(* index.js:81-90  the pipeline                                            *)
(***************************************************************************)
NoOnion == [built |-> FALSE, chain |-> <<>>]

\* index.js:82-84: Array.prototype.sort by a.priority - b.priority (stable).
RECURSIVE insertByPriority(_, _)
insertByPriority(sorted, x) ==
    IF sorted = <<>> THEN <<x>>
    ELSE IF Head(sorted).priority - x.priority <= 0
         THEN <<Head(sorted)>> \o insertByPriority(Tail(sorted), x)
         ELSE <<x>> \o sorted

RECURSIVE sortMiddleware(_)
sortMiddleware(mw) ==
    IF mw = <<>> THEN <<>>
    ELSE insertByPriority(sortMiddleware(SubSeq(mw, 1, Len(mw) - 1)), mw[Len(mw)])

\* A variant that folds the list from its last element (reduceRight).
composeOnionRight(sorted) ==
    [built |-> TRUE, chain |-> [i \in 1..Len(sorted) |-> sorted[Len(sorted) + 1 - i]]]

\* index.js:85-89: middleware.reduce(..., coreFunction) visits the list from its
\* first element, so chain[1] wraps coreFunction and chain[n] wraps the closure
\* made for chain[n-1]; the closure made last is the onion.
composeOnion(sorted) == [built |-> TRUE, chain |-> sorted]

\* index.js:86-88: the closure made for chain[n] is called (n = 0: coreFunction).
RECURSIVE callLayer(_, _, _, _)
callLayer(w, chain, n, currentAction) ==
    IF n = 0 THEN coreFunction(w, currentAction)
    ELSE LET func == chain[n].func
             w0 == Log(w, Event("layer", func.kind, func.id, currentAction.type, w.state))
             installed == use(w0, [id |-> Len(w0.middleware) + 1, kind |-> "pass"],
                              [typeof |-> "number", value |-> 0]).w
             r == callLayer(w0, chain, n - 1, currentAction)
             followUp == [typeof |-> "object", isArray |-> FALSE, hasType |-> TRUE,
                          type |-> "B"]
         IN  CASE func.kind = "pass" -> r
               [] func.kind = "block" -> [w |-> w0, ret |-> w0.state]
               [] func.kind = "stamp" -> [w |-> r.w, ret |-> Put(r.ret, "seen", 1)]
               [] func.kind = "reset" -> [w |-> w0, ret |-> {<<"count", 0>>}]
               [] func.kind = "installer" -> callLayer(installed, chain, n - 1, currentAction)
               [] func.kind = "levelUp" ->
                    IF r.w.thrown = "ok" /\ currentAction.type = "A"
                    THEN [w |-> dispatch(r.w, [isArray |-> FALSE, items |-> <<followUp>>],
                                         [typeof |-> "boolean", truthy |-> FALSE]).w,
                          ret |-> r.ret]
                    ELSE r

\* A variant that composes the pipeline on every dispatch.
onionAlwaysMissing(w) == TRUE

\* index.js:81: the pipeline is composed only when there is none.
onionMissing(w) == ~w.callbackOnion.built

\* index.js:81-90
ensureOnion(w) ==
    IF onionMissing(w)
    THEN LET sorted == sortMiddleware(w.middleware)
         IN  Log([w EXCEPT !.middleware = sorted, !.callbackOnion = composeOnion(sorted)],
                 Event("build", "dispatch", 0, "undefined", w.state))
    ELSE w

(***************************************************************************)
(* index.js:57-106  dispatch                                               *)
(***************************************************************************)
\* An argument of dispatch: an array of values, or one value alone.
Single(v) == [isArray |-> FALSE, items |-> <<v>>]

Array(vs) == [isArray |-> TRUE, items |-> vs]

\* index.js:58-80 (a build that is not the production build): the error thrown, or "ok".
validateDispatch(action, rerender) ==
    IF ~action.isArray /\ action.items[1].typeof # "object" THEN "action: invalid type"
    ELSE IF action.isArray
            /\ \E i \in 1..Len(action.items) :
                   \/ action.items[i].typeof # "object"
                   \/ action.items[i].isArray
                   \/ ~action.items[i].hasType
         THEN "action at index: invalid type or missing type"
    ELSE IF ~action.isArray /\ ~action.items[1].hasType THEN "action: missing type"
    ELSE IF rerender.typeof # "boolean" THEN "rerender: invalid type"
    ELSE "ok"

\* index.js:100: el(arg), the body of the subscriber el at index i.
callSubscriber(w, el, i, arg) ==
    LET w0 == Log(w, Event("callback", el, i, "undefined", arg))
        followUp == [typeof |-> "object", isArray |-> FALSE, hasType |-> TRUE, type |-> "B"]
    IN  CASE el = "thrower" -> [w0 EXCEPT !.thrown = SubscriberError]
          [] el = "once" -> unlisten(w0, el)
          [] el = "dispatcher" ->
               dispatch(w0, [isArray |-> FALSE, items |-> <<followUp>>],
                        [typeof |-> "boolean", truthy |-> FALSE]).w
          [] el = "observer" ->
               Log(w0, Event("return", "getState", i, "undefined", getState(w0)))
          [] OTHER -> w0

\* A variant of the round in which every subscriber is handed the state the round
\* began with.
RECURSIVE forEachCallbackWith(_, _, _, _)
forEachCallbackWith(w, i, len, s0) ==
    IF i > len \/ w.thrown # "ok" THEN w
    ELSE IF i > Len(w.callbacks) THEN forEachCallbackWith(w, i + 1, len, s0)
    ELSE LET el == w.callbacks[i]
             w1 == IF typeofSubscriber(el) = "function"
                   THEN callSubscriber(w, el, i, s0)
                   ELSE Log(w, Event("enqueueForceUpdate", el, i, "undefined", EmptyObject))
         IN  forEachCallbackWith(w1, i + 1, len, s0)

forEachCallbackSnapshot(w, i, len) == forEachCallbackWith(w, i, len, w.state)

\* index.js:98-104: callbacks.forEach from index i on; len is the length of the
\* list when the loop began. An error thrown by a subscriber ends the loop.
RECURSIVE forEachCallback(_, _, _)
forEachCallback(w, i, len) ==
    IF i > len \/ w.thrown # "ok" THEN w
    ELSE IF i > Len(w.callbacks) THEN forEachCallback(w, i + 1, len)
    ELSE LET el == w.callbacks[i]
             w1 == IF typeofSubscriber(el) = "function"
                   THEN callSubscriber(w, el, i, w.state)
                   ELSE Log(w, Event("enqueueForceUpdate", el, i, "undefined", EmptyObject))
         IN  forEachCallback(w1, i + 1, len)

\* A variant of action.forEach that tells the subscribers after every action.
RECURSIVE forEachActionNotifying(_, _, _)
forEachActionNotifying(w, batch, i) ==
    IF i > Len(batch) THEN w
    ELSE LET el == batch[i]
             chain == w.callbackOnion.chain
             r == callLayer(w, chain, Len(chain), el)
             w1 == [r.w EXCEPT !.state = r.ret]
             w2 == Log(w1, Event("assign", "dispatch", i, el.type, w1.state))
         IN  forEachActionNotifying(forEachCallback(w2, 1, Len(w2.callbacks)), batch, i + 1)

\* A variant of action.forEach that reduces every action from the state the batch
\* began with.
RECURSIVE forEachActionFrom(_, _, _, _)
forEachActionFrom(w, batch, i, s0) ==
    IF i > Len(batch) THEN w
    ELSE LET el == batch[i]
             chain == w.callbackOnion.chain
             r == callLayer([w EXCEPT !.state = s0], chain, Len(chain), el)
             w1 == [r.w EXCEPT !.state = r.ret]
         IN  forEachActionFrom(Log(w1, Event("assign", "dispatch", i, el.type, w1.state)),
                               batch, i + 1, s0)

forEachActionSnapshot(w, batch, i) == forEachActionFrom(w, batch, i, w.state)

\* index.js:94-96: action.forEach from element i on; each element goes through the
\* onion that callbackOnion holds at that moment and its result is assigned to state.
\* A variant of action.forEach that leaves in state what coreFunction put there,
\* whatever the onion returns.
RECURSIVE forEachActionIgnoringReturn(_, _, _)
forEachActionIgnoringReturn(w, batch, i) ==
    IF i > Len(batch) \/ w.thrown # "ok" THEN w
    ELSE IF ~w.callbackOnion.built THEN [w EXCEPT !.thrown = NotAFunction]
    ELSE LET el == batch[i]
             chain == w.callbackOnion.chain
             r == callLayer(w, chain, Len(chain), el)
         IN  IF r.w.thrown # "ok" THEN r.w
             ELSE forEachActionIgnoringReturn(
                      Log(r.w, Event("assign", "dispatch", i, el.type, r.w.state)),
                      batch, i + 1)

\* Calling callbackOnion while it is null throws a TypeError; an error thrown
\* inside the onion ends the loop before the assignment.
RECURSIVE forEachAction(_, _, _)
forEachAction(w, batch, i) ==
    IF i > Len(batch) \/ w.thrown # "ok" THEN w
    ELSE IF ~w.callbackOnion.built THEN [w EXCEPT !.thrown = NotAFunction]
    ELSE LET el == batch[i]
             chain == w.callbackOnion.chain
             r == callLayer(w, chain, Len(chain), el)
             w1 == [r.w EXCEPT !.state = r.ret]
         IN  IF r.w.thrown # "ok" THEN r.w
             ELSE forEachAction(Log(w1, Event("assign", "dispatch", i, el.type, w1.state)),
                                batch, i + 1)

\* A variant that tells the subscribers whatever rerender is.
alwaysRerender(rerender) == TRUE

\* index.js:97: subscribers are told only when rerender is truthy.
shouldRerender(rerender) == rerender.truthy

\* A variant that finds a malformed element of the batch only when its turn comes:
\* the elements before it are reduced, then the error is thrown.
dispatchCheckingLate(w, action, rerender) ==
    LET msg == validateDispatch(action, rerender)
        wellFormed == {n \in 0..Len(action.items) :
                          \A i \in 1..n : action.items[i].typeof = "object"
                                           /\ ~action.items[i].isArray
                                           /\ action.items[i].hasType}
        prefix == SubSeq(action.items, 1,
                         CHOOSE n \in wellFormed : \A m \in wellFormed : m <= n)
        w0 == Log(w, Event("dispatch", "dispatch", 0, "undefined", w.state))
        w1 == ensureOnion(w0)
        w2 == forEachAction(w1, prefix, 1)
        w3 == IF w2.thrown = "ok" /\ shouldRerender(rerender)
              THEN forEachCallback(w2, 1, Len(w2.callbacks))
              ELSE w2
    IN  IF msg # "ok" THEN [w |-> [w2 EXCEPT !.thrown = msg], threw |-> msg]
        ELSE [w |-> w3, threw |-> w3.thrown]

\* The world after the call and the error thrown ("ok" when none).
dispatch(w, action, rerender) ==
    LET msg == validateDispatch(action, rerender)
        w0 == Log(w, Event("dispatch", "dispatch", 0, "undefined", w.state))
        w1 == ensureOnion(w0)
        w2 == forEachAction(w1, action.items, 1)
        w3 == IF w2.thrown = "ok" /\ shouldRerender(rerender)
              THEN forEachCallback(w2, 1, Len(w2.callbacks))
              ELSE w2
    IN  IF msg # "ok" THEN [w |-> [w EXCEPT !.thrown = msg], threw |-> msg]
        ELSE [w |-> w3, threw |-> w3.thrown]

(***************************************************************************)
(* index.js:108-125  register                                              *)
(***************************************************************************)
\* index.js:109-117
validateRegister(actions, reducer) ==
    IF actions.typeof # "string" /\ (actions.typeof # "object" \/ ~actions.isArray)
    THEN "actions: invalid type"
    ELSE IF reducer \notin Reducers THEN "reducer: invalid type"
    ELSE "ok"

\* index.js:121-124: actions.forEach from key i on.
RECURSIVE forEachKey(_, _, _, _)
forEachKey(w, keys, i, reducer) ==
    IF i > Len(keys) THEN w
    ELSE LET key == keys[i]
             old == IF key \in DOMAIN w.reducers THEN w.reducers[key] ELSE <<>>
             new == [k \in DOMAIN w.reducers \cup {key} |->
                       IF k = key THEN Append(old, reducer) ELSE w.reducers[k]]
         IN  forEachKey([w EXCEPT !.reducers = new], keys, i + 1, reducer)

\* A variant that throws the composed pipeline away, as use does.
registerInvalidating(w, actions, reducer) ==
    LET msg == validateRegister(actions, reducer)
    IN  IF msg # "ok" THEN [w |-> w, threw |-> msg]
        ELSE [w |-> [forEachKey(w, actions.keys, 1, reducer) EXCEPT !.callbackOnion = NoOnion],
              threw |-> "ok"]

register(w, actions, reducer) ==
    LET msg == validateRegister(actions, reducer)
    IN  IF msg # "ok" THEN [w |-> w, threw |-> msg]
        ELSE [w |-> forEachKey(w, actions.keys, 1, reducer), threw |-> "ok"]

(***************************************************************************)
(* index.js:153-181  listen, unlisten                                      *)
(***************************************************************************)
\* The second argument of listen when it is left out.
Undefined == "undefined"

\* A variant that does not add a callback that is already subscribed.
listenOnce(w, callback, reducer) ==
    IF reducer # Undefined THEN register(w, callback, reducer)
    ELSE IF callback \notin Subscribers \cup Callers THEN [w |-> w, threw |-> "callback: invalid type"]
    ELSE IF \E i \in 1..Len(w.callbacks) : w.callbacks[i] = callback
         THEN [w |-> w, threw |-> "ok"]
         ELSE [w |-> [w EXCEPT !.callbacks = Append(@, callback)], threw |-> "ok"]

\* index.js:153-173: with a reducer the call is register(callback, reducer) (the
\* deprecated reading); otherwise the callback is appended to the subscribers.
listen(w, callback, reducer) ==
    IF reducer # Undefined THEN register(w, callback, reducer)
    ELSE IF callback \notin Subscribers \cup Callers THEN [w |-> w, threw |-> "callback: invalid type"]
    ELSE [w |-> [w EXCEPT !.callbacks = Append(@, callback)], threw |-> "ok"]

\* Array.prototype.indexOf, 1-based; 0 when absent.
indexOf(list, x) ==
    IF \E i \in 1..Len(list) : list[i] = x
    THEN CHOOSE i \in 1..Len(list) : list[i] = x /\ \A j \in 1..(i - 1) : list[j] # x
    ELSE 0

\* A variant that removes every entry that is the callback.
unlistenEvery(w, callback) ==
    [w EXCEPT !.callbacks = SelectSeq(@, LAMBDA el : el # callback)]

\* index.js:176-181
unlisten(w, callback) ==
    LET index == indexOf(w.callbacks, callback)
    IN  IF index # 0
        THEN [w EXCEPT !.callbacks = SubSeq(@, 1, index - 1) \o SubSeq(@, index + 1, Len(@))]
        ELSE w

(***************************************************************************)
(* index.js:183-197  use                                                   *)
(***************************************************************************)
\* A variant of use that keeps the composed pipeline.
keepOnion(onion) == onion

\* index.js:196
invalidate(onion) == NoOnion

\* index.js:184-196
use(w, newMiddleware, priority) ==
    IF newMiddleware.kind \notin Kinds \cup AlteringKinds \cup CallingKinds
    THEN [w |-> w, threw |-> "newMiddleware: invalid type"]
    ELSE IF priority.typeof # "number" THEN [w |-> w, threw |-> "priority: invalid type"]
    ELSE [w |-> [w EXCEPT !.middleware =
                              <<[priority |-> priority.value, func |-> newMiddleware]>> \o @,
                          !.callbackOnion = invalidate(@)],
          threw |-> "ok"]

\* index.js:200-202
getState(w) == w.state

(***************************************************************************)
(* The reducers applied to the actions directly, outside the engine.       *)
(***************************************************************************)
RECURSIVE applyAll(_, _, _)
applyAll(s, list, action) ==
    IF list = <<>> THEN s
    ELSE applyAll(reducerBody(Head(list), s, action), Tail(list), action)

RECURSIVE foldActions(_, _, _)
foldActions(s, batch, regs) ==
    IF batch = <<>> THEN s
    ELSE LET a == Head(batch)
             s1 == IF a.type \in DOMAIN regs THEN applyAll(s, regs[a.type], a) ELSE s
         IN  foldActions(s1, Tail(batch), regs)

(***************************************************************************)
(* The calls a program makes.                                              *)
(***************************************************************************)
String(k) == [typeof |-> "string", isArray |-> FALSE, keys |-> <<k>>]

KeyArray(ks) == [typeof |-> "object", isArray |-> TRUE, keys |-> ks]

Function(id, kind) == [id |-> id, kind |-> kind]

Number(n) == [typeof |-> "number", value |-> n]

NotANumber == [typeof |-> "string", value |-> 0]

World ==
    [state |-> state, mutableState |-> mutableState, reducers |-> reducers,
     callbacks |-> callbacks, middleware |-> middleware, callbackOnion |-> callbackOnion,
     trace |-> <<>>, thrown |-> "ok"]

Call(op, threw, types, rerender, who, priority) ==
    [op |-> op, threw |-> threw, types |-> types, rerender |-> rerender, who |-> who,
     priority |-> priority]

TypesOf(items) == [i \in 1..Len(items) |-> items[i].type]

Occurrences(ev, tr) == Cardinality({i \in 1..Len(tr) : tr[i].ev = ev})

\* The module state after a call, and what the call did.
Becomes(w, c) ==
    /\ calls < MaxCalls
    /\ calls' = calls + 1
    /\ state' = w.state
    /\ mutableState' = w.mutableState
    /\ reducers' = w.reducers
    /\ callbacks' = w.callbacks
    /\ middleware' = w.middleware
    /\ callbackOnion' = w.callbackOnion
    /\ trace' = w.trace
    /\ call' = c
    /\ builds' = builds + Occurrences("build", w.trace)

Init ==
    /\ state = EmptyObject
    /\ mutableState = EmptyObject
    /\ reducers = <<>>
    /\ callbacks = <<>>
    /\ middleware = <<>>
    /\ callbackOnion = NoOnion
    /\ call = Call("load", "ok", <<>>, FALSE, "", 0)
    /\ trace = <<>>
    /\ builds = 0
    /\ buildsSinceUse = 0
    /\ calls = 0
    /\ reference = EmptyObject

\* dispatch(action, rerender), the arguments drawn from the given sets.
Dispatch(actions, flags) ==
    \E action \in actions, rerender \in flags :
        LET r == dispatch(World, action, rerender)
        IN  /\ Becomes(r.w, Call("dispatch", r.threw, TypesOf(action.items), rerender.truthy,
                                 IF action.isArray THEN "array" ELSE "object", 0))
            /\ buildsSinceUse' = buildsSinceUse + Occurrences("build", r.w.trace)
            /\ reference' = IF r.threw = "ok"
                            THEN foldActions(reference, action.items, reducers)
                            ELSE reference

\* register(actions, reducer)
Register(keyArgs, fns) ==
    /\ \E actions \in keyArgs, reducer \in fns :
         LET r == register(World, actions, reducer)
         IN  Becomes(r.w, Call("register", r.threw, actions.keys, FALSE, reducer, 0))
    /\ UNCHANGED <<buildsSinceUse, reference>>

\* listen(callback)
Listen(subscribers) ==
    /\ \E callback \in subscribers :
         LET r == listen(World, callback, Undefined)
         IN  Becomes(r.w, Call("listen", r.threw, <<>>, FALSE, callback, 0))
    /\ UNCHANGED <<buildsSinceUse, reference>>

\* listen(actions, reducer), the deprecated way to register a reducer
ListenReducer(keyArgs, fns) ==
    /\ \E actions \in keyArgs, reducer \in fns :
         LET r == listen(World, actions, reducer)
         IN  Becomes(r.w, Call("register", r.threw, actions.keys, FALSE, reducer, 0))
    /\ UNCHANGED <<buildsSinceUse, reference>>

\* unlisten(callback)
Unlisten(subscribers) ==
    /\ \E callback \in subscribers :
         Becomes(unlisten(World, callback), Call("unlisten", "ok", <<>>, FALSE, callback, 0))
    /\ UNCHANGED <<buildsSinceUse, reference>>

\* use(newMiddleware, priority).  Every call hands over a new function, whose id
\* is the number of the call.
Use(kinds, priorities) ==
    /\ \E kind \in kinds, priority \in priorities :
         LET r == use(World, Function(Len(middleware) + 1, kind), priority)
         IN  /\ Becomes(r.w, Call("use", r.threw, <<>>, FALSE, kind, priority.value))
             /\ buildsSinceUse' = IF r.threw = "ok" THEN 0 ELSE buildsSinceUse
    /\ UNCHANGED reference

\* getState()
GetState ==
    /\ Becomes(Log(World, Event("return", "getState", 0, "undefined", getState(World))),
               Call("getState", "ok", <<>>, FALSE, "", 0))
    /\ UNCHANGED <<buildsSinceUse, reference>>

A == Single(Action("A"))

B == Single(Action("B"))

AA == Array(<<Action("A"), Action("A")>>)

AB == Array(<<Action("A"), Action("B")>>)

BA == Array(<<Action("B"), Action("A")>>)

JustB == Array(<<Action("B")>>)

Nothing == Array(<<>>)

(***************************************************************************)
(* Programs that register middleware between dispatches.                   *)
(***************************************************************************)
NextPipeline ==
    \/ Use(Kinds, {Number(p) : p \in PriorityValues})
    \/ Dispatch({A, AB}, {Flag(TRUE)})
    \/ Register({String("A")}, {"inc"})
    \/ Listen({"cb1"})
    \/ Unlisten({"cb1"})
    \/ GetState

SpecPipeline == Init /\ [][NextPipeline]_vars

(***************************************************************************)
(* Programs that register reducers and dispatch batches.                   *)
(***************************************************************************)
NextReduce ==
    \/ Register({String("A"), String("B"), KeyArray(<<"A", "B">>)}, Reducers)
    \/ Dispatch({A, JustB, AA, AB, BA}, {Flag(TRUE)})
    \/ Use(Kinds, {Number(0)})

SpecReduce == Init /\ [][NextReduce]_vars

(***************************************************************************)
(* Programs that subscribe, unsubscribe and dispatch with and without      *)
(* notification.                                                           *)
(***************************************************************************)
NextNotify ==
    \/ Listen(Subscribers)
    \/ Unlisten({"cb1", "comp"})
    \/ Dispatch({A, B, AA, Nothing}, {Flag(TRUE), Flag(FALSE)})
    \/ Register({String("A")}, {"inc"})
    \/ ListenReducer({String("A")}, {"dbl"})
    \/ Use({"pass"}, {Number(0)})

SpecNotify == Init /\ [][NextNotify]_vars

(***************************************************************************)
(* Reading the trace of a call.                                            *)
(***************************************************************************)
(***************************************************************************)
(* Programs that hand over arguments of the wrong shape (in a build that   *)
(* is not the production build).                                           *)
(***************************************************************************)
NotKeys == [typeof |-> "number", isArray |-> FALSE, keys |-> <<>>]

NotAFunctionArgument == "notAFunction"

AUntyped == Array(<<Action("A"), Untyped>>)

ANotAnObject == Array(<<Action("A"), NotAnObject>>)

NextShape ==
    \/ Dispatch({A, AA, Single(Untyped), Single(NotAnObject), AUntyped, ANotAnObject},
                {Flag(TRUE), NotABoolean})
    \/ Register({String("A"), NotKeys}, {"inc", NotAFunctionArgument})
    \/ Use({"pass", NotAFunctionArgument}, {Number(0), NotANumber})
    \/ Listen({"cb1"})

SpecShape == Init /\ [][NextShape]_vars

(***************************************************************************)
(* Programs whose subscribers throw or call back into the module.          *)
(***************************************************************************)
NextCallers ==
    \/ Listen({"cb1"} \cup Callers)
    \/ Dispatch({A, AB}, {Flag(TRUE)})
    \/ Register({String("A"), String("B")}, {"inc"})

SpecCallers == Init /\ [][NextCallers]_vars

(***************************************************************************)
(* Programs whose middleware alters the result of next(action) or returns  *)
(* a state of its own without calling next.                                *)
(***************************************************************************)
NextLayers ==
    \/ Use({"block"} \cup AlteringKinds, {Number(0)})
    \/ Dispatch({A, AB}, {Flag(TRUE)})
    \/ Register({String("A"), String("B")}, {"inc"})
    \/ Listen({"cb1"})

SpecLayers == Init /\ [][NextLayers]_vars

(***************************************************************************)
(* Programs whose middleware calls back into the module.                   *)
(***************************************************************************)
NextReentrant ==
    \/ Use({"pass"} \cup CallingKinds, {Number(0)})
    \/ Dispatch({A, AA, AB}, {Flag(TRUE)})
    \/ Register({String("A"), String("B")}, {"inc"})

SpecReentrant == Init /\ [][NextReentrant]_vars

Dispatched(c) == c.op = "dispatch" /\ c.threw = "ok"

\* Every registered middleware function returns next(action).
Transparent == \A i \in 1..Len(middleware) : middleware[i].func.kind = "pass"

Positions(tr, evs) == {p \in 1..Len(tr) : tr[p].ev \in evs}

Max(S) == CHOOSE x \in S : \A y \in S : y <= x

\* The last entry before p that is one of evs.
LastBefore(tr, p, evs) == Max({q \in Positions(tr, evs) : q < p})

\* The number (in the batch) of the action being processed at entry p.
ActionAt(tr, p) == Cardinality({q \in Positions(tr, {"assign"}) : q < p}) + 1

IsAssign(e) == e.ev = "assign"

IsReducer(e) == e.ev = "reducer"

IsLayer(e) == e.ev = "layer"

IsNotice(e) == e.ev \in {"callback", "enqueueForceUpdate"}

\* The entries of tr that belong to action k of the batch.
RECURSIVE Segment(_, _)
Segment(tr, k) ==
    LET cut == IF Positions(tr, {"assign"}) = {} THEN Len(tr) + 1
               ELSE CHOOSE p \in Positions(tr, {"assign"}) :
                        \A q \in Positions(tr, {"assign"}) : p <= q
    IN  IF k = 1 THEN SubSeq(tr, 1, cut - 1) ELSE Segment(SubSeq(tr, cut + 1, Len(tr)), k - 1)

Who(events) == [i \in 1..Len(events) |-> events[i].who]

Ids(events) == [i \in 1..Len(events) |-> events[i].layer]

Object(count) == {<<"count", count>>}

(***************************************************************************)
(* C1.  The actions of a dispatched batch go through the pipeline one at a *)
(* time in batch order: there is one assignment of state per action, in    *)
(* the order of the batch; every reducer runs for the action whose turn it *)
(* is; and the first reducer run for an action receives the state assigned *)
(* for the action before it (the state the dispatch began with, for the    *)
(* first action).  With an incrementing reducer on A and a doubling        *)
(* reducer on B, dispatching [A, B] from {count: 0} yields {count: 2}.     *)
(***************************************************************************)
IncOnADoubleOnB ==
    /\ DOMAIN reducers = {"A", "B"}
    /\ reducers["A"] = <<"inc">>
    /\ reducers["B"] = <<"dbl">>

C1_BatchIsSerialized ==
    Dispatched(call) =>
        /\ Len(SelectSeq(trace, IsAssign)) = Len(call.types)
        /\ \A k \in 1..Len(call.types) :
               /\ SelectSeq(trace, IsAssign)[k].layer = k
               /\ SelectSeq(trace, IsAssign)[k].type = call.types[k]
        /\ \A p \in Positions(trace, {"reducer"}) :
               LET q == LastBefore(trace, p, {"dispatch", "assign", "reducer"})
               IN  /\ ActionAt(trace, p) <= Len(call.types)
                   /\ trace[p].type = call.types[ActionAt(trace, p)]
                   /\ trace[q].ev # "reducer" => trace[p].state = trace[q].state
        /\ (/\ IncOnADoubleOnB
            /\ Transparent
            /\ call.types = <<"A", "B">>
            /\ trace[1].state = Object(0)) => getState(World) = Object(2)

C1_Witness ==
    /\ Dispatched(call)
    /\ IncOnADoubleOnB
    /\ call.types = <<"A", "B">>
    /\ trace[1].state = Object(0)
    /\ getState(World) = Object(2)

(***************************************************************************)
(* C2.  Order in which the layers of the pipeline are entered.             *)
(***************************************************************************)
PriorityOf(id) ==
    middleware[CHOOSE i \in 1..Len(middleware) : middleware[i].func.id = id].priority

LayersOf(tr, k) == SelectSeq(Segment(tr, k), IsLayer)

\* In the entries of one action, coreFunction is entered after every layer.
CoreIsLast(seg) ==
    \A c \in Positions(seg, {"core"}), l \in Positions(seg, {"layer"}) : l < c

\* M1 with priority 1, then M2 with priority 1, then M3 with priority 0.
M1M2M3 ==
    /\ Len(middleware) = 3
    /\ Transparent
    /\ PriorityOf(1) = 1
    /\ PriorityOf(2) = 1
    /\ PriorityOf(3) = 0

C3_NoStalePipeline ==
    Dispatched(call) =>
        LET chain == callbackOnion.chain
            n == Len(chain)
        IN  /\ callbackOnion.built
            /\ n = Len(middleware)
            /\ \A id \in 1..Len(middleware) :
                   Cardinality({i \in 1..n : chain[i].func.id = id}) = 1
            /\ \A k \in 1..Len(call.types) :
                   LET layers == LayersOf(trace, k)
                   IN  /\ Len(layers) <= n
                       /\ \A i \in 1..Len(layers) :
                              /\ layers[i].layer = chain[n + 1 - i].func.id
                              /\ i < Len(layers) => chain[n + 1 - i].func.kind = "pass"
                       /\ Len(layers) < n => chain[n + 1 - Len(layers)].func.kind = "block"

\* A dispatch, then use(...), then a dispatch that composes the pipeline again and
\* enters every registered layer.
C3_Witness ==
    /\ Dispatched(call)
    /\ builds = 2
    /\ Occurrences("build", trace) = 1
    /\ Len(middleware) >= 2
    /\ Transparent
    /\ Len(LayersOf(trace, Len(call.types))) = Len(middleware)

(***************************************************************************)
(* C4.  The pipeline is composed only because the middleware registry      *)
(* changed: once composed it is replaced by nothing but use(...), a call   *)
(* other than dispatch (getState included) composes nothing, and a         *)
(* dispatch that finds a composed pipeline reuses it; so at most one       *)
(* composition follows each use(...) call, and the compositions never      *)
(* outnumber the use(...) calls plus one.                                  *)
(***************************************************************************)
C4_Step ==
    /\ (call'.op # "use" /\ callbackOnion.built) =>
           /\ callbackOnion' = callbackOnion
           /\ builds' = builds
    /\ call'.op # "dispatch" => builds' = builds
    /\ buildsSinceUse' <= 1
    /\ builds' <= Len(middleware') + 1

C4_BuiltOnlyAfterUse == [][C4_Step]_vars

\* A dispatch that reused a pipeline with middleware in it.
C4_Witness ==
    /\ Dispatched(call)
    /\ Occurrences("build", trace) = 0
    /\ Len(middleware) >= 1
    /\ builds >= 1
    /\ Len(LayersOf(trace, 1)) >= 1

(***************************************************************************)
(* C5.  dispatch(..., false) leaves the state dispatch(..., true) would    *)
(* leave for the same argument, and invokes no subscriber.                 *)
(***************************************************************************)
ArgumentOf(c) ==
    [isArray |-> c.who = "array", items |-> [i \in 1..Len(c.types) |-> Action(c.types[i])]]

C5_Step ==
    (Dispatched(call') /\ ~call'.rerender) =>
        /\ SelectSeq(trace', IsNotice) = <<>>
        /\ state' = getState(dispatch(World, ArgumentOf(call'), Flag(TRUE)).w)

C5_SilentDispatch == [][C5_Step]_vars

C5_Witness ==
    /\ Dispatched(call)
    /\ ~call.rerender
    /\ Len(callbacks) >= 2
    /\ getState(World) # trace[1].state
    /\ SelectSeq(trace, IsNotice) = <<>>

(***************************************************************************)
(* C6.  A dispatch of actions whose types have no reducer (through layers  *)
(* that all call next) throws nothing, runs no reducer and leaves the      *)
(* state as it was; when rerender is true every subscriber is still        *)
(* invoked, the callbacks with that unchanged state.                       *)
(***************************************************************************)
NoReducerFor(types) == \A i \in 1..Len(types) : types[i] \notin DOMAIN reducers

C6_NoReducerNoChange ==
    (call.op = "dispatch" /\ Transparent /\ NoReducerFor(call.types)) =>
        /\ call.threw = "ok"
        /\ Positions(trace, {"reducer"}) = {}
        /\ getState(World) = trace[1].state
        /\ call.rerender =>
               /\ Who(SelectSeq(trace, IsNotice)) = callbacks
               /\ \A p \in Positions(trace, {"callback"}) : trace[p].state = trace[1].state

\* A reducer is registered for A and has changed the state; B is dispatched.
C6_Witness ==
    /\ Dispatched(call)
    /\ call.types = <<"B">>
    /\ DOMAIN reducers = {"A"}
    /\ call.rerender
    /\ getState(World) # EmptyObject
    /\ Positions(trace, {"callback"}) # {}

(***************************************************************************)
(* C7.  The reducers registered for a type are all applied to one action   *)
(* of that type, once each and in registration order, each receiving the   *)
(* state returned by the one before it, so the action leaves the state     *)
(* rk(...r2(r1(s, a), a)..., a); register appends the reducer to the list  *)
(* of each of its keys and changes no other list.                          *)
(***************************************************************************)
ListFor(regs, t) == IF t \in DOMAIN regs THEN regs[t] ELSE <<>>

Range(f) == {f[i] : i \in DOMAIN f}

StateBefore(tr, k) == IF k = 1 THEN tr[1].state ELSE SelectSeq(tr, IsAssign)[k - 1].state

C7_Step ==
    /\ (Dispatched(call') /\ Transparent) =>
           \A k \in 1..Len(call'.types) :
               LET t == call'.types[k]
                   list == ListFor(reducers, t)
                   runs == SelectSeq(Segment(trace', k), IsReducer)
               IN  /\ Who(runs) = list
                   /\ \A i \in 1..Len(runs) :
                          runs[i].state =
                              IF i = 1 THEN StateBefore(trace', k)
                              ELSE reducerBody(list[i - 1], runs[i - 1].state, Action(t))
                   /\ SelectSeq(trace', IsAssign)[k].state =
                          applyAll(StateBefore(trace', k), list, Action(t))
    /\ (call'.op = "register" /\ call'.threw = "ok") =>
           \A t \in Types :
               ListFor(reducers', t) =
                   IF t \in Range(call'.types)
                   THEN Append(ListFor(reducers, t), call'.who)
                   ELSE ListFor(reducers, t)

C7_ReducersChained == [][C7_Step]_vars

\* register("A", inc), register(["A", "B"], dbl), then A is dispatched.
C7_Witness ==
    /\ Dispatched(call)
    /\ Transparent
    /\ DOMAIN reducers = {"A", "B"}
    /\ reducers["A"] = <<"inc", "dbl">>
    /\ reducers["B"] = <<"dbl">>
    /\ call.types = <<"A">>
    /\ trace[1].state = EmptyObject
    /\ getState(World) = Object(2)

(***************************************************************************)
(* C8.  Round trip: as long as every registered layer calls next,          *)
(* getState() is the state obtained by folding the registered reducers     *)
(* over the dispatched actions outside the engine, from the empty state.   *)
(***************************************************************************)
C8_RoundTrip == Transparent => getState(World) = reference

\* A second dispatch that changed the state again, through a layer.
C8_Witness ==
    /\ Dispatched(call)
    /\ Transparent
    /\ Len(middleware) >= 1
    /\ trace[1].state # EmptyObject
    /\ getState(World) # trace[1].state
    /\ getState(World) = reference

(***************************************************************************)
(* C9.  Subscribers are invoked only after every action of the batch has   *)
(* been reduced and assigned; a dispatch with rerender true invokes every  *)
(* entry of the subscriber list once (not once per action), the callbacks  *)
(* with the state left by the last action.                                 *)
(***************************************************************************)
C9_NotifiedAfterBatch ==
    Dispatched(call) =>
        /\ \A p \in Positions(trace, {"callback", "enqueueForceUpdate"}) :
               /\ ActionAt(trace, p) = Len(call.types) + 1
               /\ \A q \in Positions(trace, {"layer", "core", "reducer", "assign"}) : q < p
               /\ trace[p].ev = "callback" =>
                      /\ trace[p].state = getState(World)
                      /\ trace[p].state = StateBefore(trace, Len(call.types) + 1)
        /\ Len(SelectSeq(trace, IsNotice)) = IF call.rerender THEN Len(callbacks) ELSE 0
        /\ call.rerender =>
               \A el \in Subscribers :
                   Cardinality({p \in Positions(trace, {"callback", "enqueueForceUpdate"}) :
                                    trace[p].who = el})
                       = Cardinality({i \in 1..Len(callbacks) : callbacks[i] = el})

\* Two actions were reduced and two or more subscribers then invoked.
C9_Witness ==
    /\ Dispatched(call)
    /\ call.rerender
    /\ Len(call.types) = 2
    /\ Len(callbacks) >= 2
    /\ trace[1].state = EmptyObject
    /\ getState(World) = Object(2)
    /\ Cardinality(Positions(trace, {"callback"})) >= 2

(***************************************************************************)
(* C10.  listen appends the callback to the subscriber list, also when it  *)
(* is in the list already, and a dispatch with rerender true invokes the   *)
(* entries of the list in order: the i-th invocation is of the i-th entry. *)
(***************************************************************************)
C10_Step ==
    /\ (call'.op = "listen" /\ call'.threw = "ok") =>
           callbacks' = Append(callbacks, call'.who)
    /\ (Dispatched(call') /\ call'.rerender) =>
           LET notices == SelectSeq(trace', IsNotice)
           IN  /\ Who(notices) = callbacks
               /\ Ids(notices) = [i \in 1..Len(callbacks) |-> i]

C10_RegistrationOrder == [][C10_Step]_vars

\* cb1 is subscribed twice, around cb2.
C10_Witness ==
    /\ Dispatched(call)
    /\ call.rerender
    /\ callbacks = <<"cb1", "cb2", "cb1">>
    /\ Who(SelectSeq(trace, IsNotice)) = <<"cb1", "cb2", "cb1">>

(***************************************************************************)
(* C11.  unlisten(cb) removes the first entry of the subscriber list that  *)
(* is cb and nothing else: the entries before it and after it, later       *)
(* entries that are cb among them, keep their order; when no entry is cb   *)
(* the list stays as it is; and in both cases the state, the mirror, the   *)
(* reducers, the middleware and the composed pipeline stay as they are.    *)
(***************************************************************************)
C11_Step ==
    call'.op = "unlisten" =>
        LET cb == call'.who
            first == {i \in 1..Len(callbacks) :
                         callbacks[i] = cb /\ \A j \in 1..(i - 1) : callbacks[j] # cb}
        IN  /\ first = {} => callbacks' = callbacks
            /\ \A i \in first :
                   /\ Len(callbacks') = Len(callbacks) - 1
                   /\ \A j \in 1..Len(callbacks') :
                          callbacks'[j] = callbacks[IF j < i THEN j ELSE j + 1]
            /\ state' = state
            /\ mutableState' = mutableState
            /\ reducers' = reducers
            /\ middleware' = middleware
            /\ callbackOnion' = callbackOnion
            /\ trace' = <<>>

C11_RemovesFirstOnly == [][C11_Step]_vars

\* cb1 was subscribed twice and after unlisten(cb1) its later entry is still there,
\* behind cb2.
C11_Witness ==
    /\ call.op = "unlisten"
    /\ call.who = "cb1"
    /\ callbacks = <<"cb2", "cb1">>

(***************************************************************************)
(* C12.  A dispatch, register or use call that the validation of its       *)
(* arguments rejects has no effect: no action of the batch is reduced (not *)
(* the well-formed ones before a malformed element either), no subscriber  *)
(* is invoked, and the state, the mirror, the reducers, the subscribers,   *)
(* the middleware and the composed pipeline stay as they were.  A dispatch *)
(* one of whose elements is not an object or has no type is rejected.      *)
(***************************************************************************)
Rejected(c) == c.threw \notin {"ok", NotAFunction, SubscriberError}

C12_Step ==
    /\ (call'.op \in {"dispatch", "register", "use"} /\ Rejected(call')) =>
           /\ trace' = <<>>
           /\ state' = state
           /\ mutableState' = mutableState
           /\ reducers' = reducers
           /\ callbacks' = callbacks
           /\ middleware' = middleware
           /\ callbackOnion' = callbackOnion
           /\ builds' = builds
    /\ (call'.op = "dispatch" /\ "undefined" \in Range(call'.types)) => Rejected(call')
    /\ (call'.op = "register" /\ call'.who \notin Reducers) => Rejected(call')
    /\ (call'.op = "use" /\ call'.who = NotAFunctionArgument) => Rejected(call')

C12_RejectedCallHasNoEffect == [][C12_Step]_vars

\* dispatch([{ type: "A" }, {}]) was rejected while a reducer for A and a subscriber
\* were registered: the state is still the one the dispatch before it left.
C12_Witness ==
    /\ call.op = "dispatch"
    /\ Rejected(call)
    /\ call.types = <<"A", "undefined">>
    /\ ListFor(reducers, "A") = <<"inc">>
    /\ callbacks = <<"cb1">>
    /\ callbackOnion.built
    /\ getState(World) = Object(1)

(***************************************************************************)
(* C13.  When a subscriber throws during a dispatch that notifies, the     *)
(* subscribers before it in the list have each been invoked, in order, the *)
(* subscribers after it have not, the error comes out of dispatch, and the *)
(* state is the one the last assignment of the batch left.                 *)
(***************************************************************************)
C13_Step ==
    /\ (call'.op = "dispatch" /\ call'.threw = SubscriberError) =>
           LET i == indexOf(callbacks, "thrower")
               assigned == SelectSeq(trace', IsAssign)
           IN  /\ i # 0
               /\ Who(SelectSeq(trace', IsNotice)) = SubSeq(callbacks, 1, i)
               /\ assigned # <<>>
               /\ state' = assigned[Len(assigned)].state
    /\ (call'.op = "dispatch"
          /\ \E p \in Positions(trace', {"callback"}) : trace'[p].who = "thrower") =>
           call'.threw = SubscriberError

C13_NoErrorIsolation == [][C13_Step]_vars

(***************************************************************************)
(* C18.  Every invocation of a subscriber that is a function is handed the *)
(* value getState() returns at that moment: the state left by the last     *)
(* assignment made before the invocation, also one made by a dispatch that *)
(* an earlier subscriber of the same round called; and a subscriber that   *)
(* calls getState() gets its argument back.                                *)
(***************************************************************************)
C18_ArgumentIsCurrentState ==
    \A p \in Positions(trace, {"callback"}) :
        /\ trace[p].state = trace[LastBefore(trace, p, {"dispatch", "assign"})].state
        /\ trace[p].who = "observer" =>
               /\ p < Len(trace)
               /\ trace[p + 1].ev = "return"
               /\ trace[p + 1].state = trace[p].state

\* A subscriber dispatched B, which changed the state, before a subscriber that
\* calls getState() was invoked in the same round.
C18_Witness ==
    /\ Dispatched(call)
    /\ \E p, q \in Positions(trace, {"callback"}) :
           /\ p < q
           /\ trace[p].who = "dispatcher"
           /\ trace[q].who = "observer"
           /\ trace[q].state # trace[p].state
           /\ trace[q].state = getState(World)

(***************************************************************************)
(* C19.  In a dispatch that notifies, every subscriber that is in the list *)
(* when the round starts and does not unsubscribe during the round is      *)
(* invoked once for each of its entries, also when a subscriber            *)
(* unsubscribes itself from inside its callback (dispatches that return;   *)
(* a round ended by a subscriber that throws is C13).                      *)
(***************************************************************************)
C19_EachInvokedOnce ==
    (Dispatched(call) /\ call.rerender) =>
        \A el \in Range(callbacks) \ {"once"} :
            Cardinality({p \in Positions(trace, {"callback"}) : trace[p].who = el})
                = Cardinality({i \in 1..Len(callbacks) : callbacks[i] = el})

(***************************************************************************)
(* C14.  Whenever a dispatch has returned, the mirror has the keys of      *)
(* getState(), each with the same value, whatever reducers and middleware  *)
(* are registered.                                                         *)
(***************************************************************************)
C14_MirrorInSync ==
    Dispatched(call) =>
        /\ Keys(mutableState) = Keys(getState(World))
        /\ \A k \in Keys(mutableState) : Get(mutableState, k) = Get(getState(World), k)

(***************************************************************************)
(* C16.  After each action of a dispatch the state is the value the        *)
(* outermost layer returned, also when that is not what coreFunction       *)
(* produced; below a layer that returns without calling next no layer and  *)
(* no reducer runs, and coreFunction is entered at most once per action;   *)
(* the value returned is the state the next action starts from, the state  *)
(* getState() returns and the state the subscribers are handed.            *)
(***************************************************************************)
\* The value layer n of the chain returns for the action when the state is s.
RECURSIVE Returned(_, _, _, _)
Returned(chain, n, s, type) ==
    IF n = 0 THEN applyAll(s, ListFor(reducers, type), Action(type))
    ELSE CASE chain[n].func.kind = "pass" -> Returned(chain, n - 1, s, type)
           [] chain[n].func.kind = "stamp" -> Put(Returned(chain, n - 1, s, type), "seen", 1)
           [] chain[n].func.kind = "block" -> s
           [] chain[n].func.kind = "reset" -> Object(0)

CallsNext(layer) == layer.func.kind \in {"pass", "stamp"}

\* The layers of the chain that are entered, outermost first.
Entered(chain) ==
    LET first == {n \in 1..Len(chain) : ~CallsNext(chain[n])}
        stop == IF first = {} THEN 1 ELSE Max(first)
    IN  [i \in 1..(Len(chain) + 1 - stop) |-> chain[Len(chain) + 1 - i].func.id]

C16_StateIsOutermostReturn ==
    Dispatched(call) =>
        LET chain == callbackOnion.chain
            assigned == SelectSeq(trace, IsAssign)
        IN  /\ Len(assigned) = Len(call.types)
            /\ \A k \in 1..Len(call.types) :
                   LET seg == Segment(trace, k)
                   IN  /\ assigned[k].state =
                              Returned(chain, Len(chain), StateBefore(trace, k), call.types[k])
                       /\ Ids(SelectSeq(seg, IsLayer)) = Entered(chain)
                       /\ Cardinality(Positions(seg, {"core"})) =
                              IF \A n \in 1..Len(chain) : CallsNext(chain[n]) THEN 1 ELSE 0
                       /\ (\E n \in 1..Len(chain) : ~CallsNext(chain[n])) =>
                              Positions(seg, {"reducer"}) = {}
            /\ call.types # <<>> => getState(World) = assigned[Len(assigned)].state
            /\ \A p \in Positions(trace, {"callback"}) : trace[p].state = getState(World)

\* The outermost layer added a key to what the layer below it returned, and that
\* layer returned { count: 0 } without calling next while a reducer was registered
\* for the action: no reducer ran and the subscriber was handed { count: 0, seen: 1 }.
C16_Witness ==
    /\ Dispatched(call)
    /\ call.types = <<"A">>
    /\ Len(callbackOnion.chain) = 2
    /\ callbackOnion.chain[2].func.kind = "stamp"
    /\ callbackOnion.chain[1].func.kind = "reset"
    /\ ListFor(reducers, "A") # <<>>
    /\ Positions(trace, {"core", "reducer"}) = {}
    /\ Positions(trace, {"callback"}) # {}
    /\ getState(World) = Put(Object(0), "seen", 1)

(***************************************************************************)
(* C17.  register appends the reducer to the list of each of its types and *)
(* changes nothing else: the state, the mirror, the subscribers, the       *)
(* middleware and the composed pipeline stay as they were, so no pipeline  *)
(* is built because of it; and a dispatch that finds the pipeline already  *)
(* composed runs, for each action, the reducers registered for its type at *)
(* that moment, those registered after the pipeline was composed included. *)
(***************************************************************************)
C17_Step ==
    /\ (call'.op = "register" /\ call'.threw = "ok") =>
           /\ \A t \in Types :
                  ListFor(reducers', t) =
                      IF t \in Range(call'.types)
                      THEN Append(ListFor(reducers, t), call'.who)
                      ELSE ListFor(reducers, t)
           /\ DOMAIN reducers' \subseteq Types
           /\ state' = state
           /\ mutableState' = mutableState
           /\ callbacks' = callbacks
           /\ middleware' = middleware
           /\ callbackOnion' = callbackOnion
           /\ builds' = builds
    /\ (Dispatched(call') /\ Transparent /\ callbackOnion.built) =>
           /\ Positions(trace', {"build"}) = {}
           /\ \A k \in 1..Len(call'.types) :
                  Who(SelectSeq(Segment(trace', k), IsReducer)) = ListFor(reducers, call'.types[k])

C17_RegisterOnlyAppends == [][C17_Step]_vars

\* dispatch, register("A", inc), dispatch({ type: "A" }): the second dispatch built
\* no pipeline and ran the reducer registered after the first one.
C17_Witness ==
    /\ calls = 3
    /\ Dispatched(call)
    /\ Positions(trace, {"build"}) = {}
    /\ Who(SelectSeq(trace, IsReducer)) = <<"inc">>
    /\ ListFor(reducers, "A") = <<"inc">>
    /\ getState(World) = Object(1)

(***************************************************************************)
(* C15.  Whenever dispatch calls the pipeline for an action of its batch a *)
(* composed pipeline is there, also when use was called by a middleware    *)
(* layer during an earlier action of the batch: no dispatch ends with the  *)
(* error of calling a pipeline that is null.                               *)
(***************************************************************************)
C15_PipelinePresent ==
    call.op = "dispatch" => call.threw # NotAFunction

(***************************************************************************)
(* C20.  When the middleware layers return next(action) or, for an action  *)
(* of type A, call next(action), then dispatch({ type: "B" }), and return  *)
(* the result of next, then after dispatch({ type: "A" }) has returned     *)
(* getState() is the state before it reduced by A and then by B once for   *)
(* each layer that dispatched B.                                           *)
(***************************************************************************)
LevelUps == {n \in 1..Len(middleware) : middleware[n].func.kind = "levelUp"}

C20_FollowUpKept ==
    (/\ Dispatched(call)
     /\ call.types = <<"A">>
     /\ \A n \in 1..Len(middleware) : middleware[n].func.kind \in {"pass", "levelUp"}) =>
        getState(World) =
            foldActions(trace[1].state,
                        <<Action("A")>> \o [i \in 1..Cardinality(LevelUps) |-> Action("B")],
                        reducers)

====
